---- MODULE Spec2Model ----
(***************************************************************************)
(* Model of multicrvdo.py: the batched derivative evaluator                *)
(* MultiCRVDO.crvdo_autonomous_batch, the RK4 step MultiCRVDO.forward,     *)
(* the constructor MultiCRVDO.__init__ and the driving loop of             *)
(* simulate_and_plot.                                                      *)
(*                                                                         *)
(* Tensors of the program hold IEEE-754 binary floating point numbers.     *)
(* The model keeps the IEEE semantics (round to nearest, ties to even,     *)
(* gradual underflow, overflow to infinity, NaN) on a binary format of     *)
(* reduced width: PrecBits significand bits, FracBits bits below 1.0 and   *)
(* exponents up to ExpMax.  A finite value is the integer count of units   *)
(* 2^-FracBits it is worth; the sign of a zero is not kept (0.0 == -0.0).  *)
(***************************************************************************)
EXTENDS Integers, Sequences, FiniteSets, TLC

\* ------------------------------------------------------------ bounds
PrecBits == 3
FracBits == 11
ExpMax == 12
MaxSteps == 3
MaxBatch == 2

\* ------------------------------------------------------------ floats
\* A float is held as its sign-magnitude bit pattern: the magnitude is
\* (exponent field) * 2^(PrecBits-1) + (fraction field), so that the order of
\* the patterns is the order of the values, as in IEEE-754.
Mant == 2^(PrecBits - 1)
PInf == (ExpMax + 2) * Mant
NInf == 0 - PInf
NaN == PInf + 1

IsFinite(x) == x > NInf /\ x < PInf
IsNaN(x) == x = NaN
Abs(n) == IF n < 0 THEN 0 - n ELSE n
Sgn(n) == IF n < 0 THEN 0 - 1 ELSE IF n > 0 THEN 1 ELSE 0
Max(i, j) == IF i >= j THEN i ELSE j

\* the value of a finite float, in units of 2^-FracBits
Val(x) ==
  LET c == Abs(x)
  IN  Sgn(x) * (IF c < Mant THEN c ELSE (Mant + (c % Mant)) * 2^((c \div Mant) - 1))
MaxFinite == Val(PInf - 1)

\* number of low bits to drop so that m fits in PrecBits bits
Shift(m) ==
  CHOOSE s \in 0..(30 - PrecBits) :
    m < 2^(PrecBits + s) /\ (s = 0 \/ m >= 2^(PrecBits + s - 1))

\* the number of trailing zero bits of n > 0
Twos(n) == CHOOSE k \in 0..29 : n % 2^k = 0 /\ n % 2^(k + 1) # 0

\* the float whose value is n units (n has at most PrecBits significant bits)
Enc(n) ==
  LET m == Abs(n)
      s == Shift(m)
  IN  Sgn(n) * (IF m < 2 * Mant THEN m ELSE (s + 1) * Mant + ((m \div 2^s) - Mant))

\* The float nearest to sg * (num / den) * 2^e units, num >= 0, den > 0,
\* ties to the even significand; beyond MaxFinite it is an infinity.
RoundRat(sg, num, den, e) ==
  LET s == Max(Shift(num \div den), 0 - e)
      d == den * 2^s
      q == num \div d
      r == num % d
      up == (2 * r > d) \/ (2 * r = d /\ q % 2 = 1)
      q1 == IF up THEN q + 1 ELSE q
      k == e + s
  IN  IF q1 = 0 THEN 0
      ELSE IF q1 * 2^k > MaxFinite THEN sg * PInf
      ELSE Enc(sg * q1 * 2^k)

Round(sg, m, e) == RoundRat(sg, m, 1, e)

FNeg(x) == IF IsNaN(x) THEN NaN ELSE 0 - x

\* x + y, x * y and x / y as IEEE-754 computes them
AddExact(x, w) ==
  IF IsNaN(x) \/ IsNaN(w) THEN NaN
  ELSE IF ~IsFinite(x) THEN (IF ~IsFinite(w) /\ w # x THEN NaN ELSE x)
  ELSE IF ~IsFinite(w) THEN w
  ELSE Round(Sgn(Val(x) + Val(w)), Abs(Val(x) + Val(w)), 0)

MulExact(x, w) ==
  IF IsNaN(x) \/ IsNaN(w) THEN NaN
  ELSE IF ~IsFinite(x) \/ ~IsFinite(w)
       THEN IF x = 0 \/ w = 0 THEN NaN ELSE Sgn(x) * Sgn(w) * PInf
  ELSE IF x = 0 \/ w = 0 THEN 0
  ELSE LET kx == Twos(Abs(Val(x)))
           kw == Twos(Abs(Val(w)))
           mx == Abs(Val(x)) \div 2^kx
           mw == Abs(Val(w)) \div 2^kw
       IN  Round(Sgn(x) * Sgn(w), mx * mw, kx + kw - FracBits)

\* the divisor w is finite and not zero
DivExact(x, w) ==
  IF IsNaN(x) THEN NaN
  ELSE IF ~IsFinite(x) THEN Sgn(x) * Sgn(w) * PInf
  ELSE IF x = 0 THEN 0
  ELSE LET kx == Twos(Abs(Val(x)))
           kw == Twos(Abs(Val(w)))
           mx == Abs(Val(x)) \div 2^kx
           mw == Abs(Val(w)) \div 2^kw
       IN  RoundRat(Sgn(x) * Sgn(w), mx * 2^(2 * PrecBits), mw,
                    kx - kw + FracBits - 2 * PrecBits)

\* the float of a small integer or of i / 2^j
Lit(i) == Enc(i * 2^FracBits)
Frac(i, j) == Enc((i * 2^FracBits) \div 2^j)
Three == Lit(3)
Two == Lit(2)
Six == Lit(6)
Half == Frac(1, 1)

\* The operations are evaluated once for every pair of floats and looked up
\* afterwards.
Width == NaN - NInf + 1
AddTable == [i \in 1..(Width * Width) |->
               AddExact(((i - 1) \div Width) + NInf, ((i - 1) % Width) + NInf)] \o <<>>
MulTable == [i \in 1..(Width * Width) |->
               MulExact(((i - 1) \div Width) + NInf, ((i - 1) % Width) + NInf)] \o <<>>
DivSixTable == [i \in 1..Width |-> DivExact((i - 1) + NInf, Six)] \o <<>>

FAdd(x, y) == AddTable[(x - NInf) * Width + (y - NInf) + 1]
FSub(x, y) == FAdd(x, FNeg(y))
FMul(x, y) == MulTable[(x - NInf) * Width + (y - NInf) + 1]
\* dt // 6.0 in place of dt / 6.0, for a dt between -6 and 6
FDivSix_floor(x) ==
  IF ~IsFinite(x) THEN x ELSE IF x >= 0 THEN 0 ELSE FNeg(Lit(1))
\* x / 6.0
FDivSix(x) == DivSixTable[x - NInf + 1]

\* Tensor.pow(2) and Tensor.pow(3): repeated multiplication
FPow2(x) == FMul(x, x)
FPow3(x) == FMul(FMul(x, x), x)

\* ------------------------------------------------------------ tensors
\* A 1-D tensor is a non-empty sequence of floats, a 2-D tensor [N, C] a
\* sequence of N rows of C floats.  Raised (the empty sequence; the model
\* has no empty tensor) stands for the RuntimeError of an operation whose
\* operand shapes do not fit; an operation on Raised is Raised, as an
\* exception ends the whole call.
Raised == <<>>

\* elementwise binary operations on 1-D tensors, broadcasting a length of 1
Bcast(Op(_, _), u, v) ==
  IF u = Raised \/ v = Raised THEN Raised
  ELSE IF Len(u) = Len(v) THEN [i \in 1..Len(u) |-> Op(u[i], v[i])]
  ELSE IF Len(u) = 1 THEN [i \in 1..Len(v) |-> Op(u[1], v[i])]
  ELSE IF Len(v) = 1 THEN [i \in 1..Len(u) |-> Op(u[i], v[1])]
  ELSE Raised

TAdd(u, v) == Bcast(FAdd, u, v)
TSub(u, v) == Bcast(FSub, u, v)
TMul(u, v) == Bcast(FMul, u, v)
\* a Python number or 0-dim tensor c times a tensor; negation; powers
SMul(c, u) == IF u = Raised THEN Raised ELSE [i \in 1..Len(u) |-> FMul(c, u[i])]
TNeg(u) == IF u = Raised THEN Raised ELSE [i \in 1..Len(u) |-> FNeg(u[i])]
TPow2(u) == IF u = Raised THEN Raised ELSE [i \in 1..Len(u) |-> FPow2(u[i])]
TPow3_as_square(u) == TPow2(u)
TPow3(u) == IF u = Raised THEN Raised ELSE [i \in 1..Len(u) |-> FPow3(u[i])]

\* columns picked by index, whatever the number of columns
Unbind_prefix(t, cnt) ==
  IF t = Raised \/ Len(t[1]) < cnt THEN Raised
  ELSE [j \in 1..cnt |-> [i \in 1..Len(t) |-> t[i][j]]]
\* every row reads the first row
Unbind_first_row(t, cnt) ==
  IF t = Raised \/ Len(t[1]) # cnt THEN Raised
  ELSE [j \in 1..cnt |-> [i \in 1..Len(t) |-> t[1][j]]]
\* t.unbind(-1) unpacked into cnt names: the columns of t, or Raised when
\* t does not have exactly cnt columns
Unbind(t, cnt) ==
  IF t = Raised \/ Len(t[1]) # cnt THEN Raised
  ELSE [j \in 1..cnt |-> [i \in 1..Len(t) |-> t[i][j]]]

\* torch.stack(cols, dim=-1): all columns must have one size
Stack(cols) ==
  IF \E j \in 1..Len(cols) : cols[j] = Raised \/ Len(cols[j]) # Len(cols[1])
  THEN Raised
  ELSE [i \in 1..Len(cols[1]) |-> [j \in 1..Len(cols) |-> cols[j][i]]]

\* elementwise operations on 2-D tensors of equal row length, broadcasting a
\* leading dimension of 1
MAdd(A, B) ==
  IF A = Raised \/ B = Raised THEN Raised
  ELSE IF Len(A[1]) # Len(B[1]) /\ Len(A[1]) # 1 /\ Len(B[1]) # 1 THEN Raised
  ELSE Bcast(LAMBDA r, q : Bcast(FAdd, r, q), A, B)
MScale(c, A) == IF A = Raised THEN Raised ELSE [i \in 1..Len(A) |-> SMul(c, A[i])]

\* ------------------------------------------------------------ program
\* The four components stacked by MultiCRVDO.crvdo_autonomous_batch, from the
\* unbound columns zs = (z1, z2, z3, z4), ps = (a, b, c, d, e) and
\* us = (u1, u2, u3, u4)
crvdo_dz1(zs, ps, us) == TAdd(zs[3], us[1])

\* z4 + u2 in place of z4
crvdo_dz2_forced(zs, ps, us) == TAdd(zs[4], us[2])
crvdo_dz2(zs, ps, us) == zs[4]

crvdo_dz3(zs, ps, us) ==
  LET z1 == zs[1]  z2 == zs[2]  z3 == zs[3]  z4 == zs[4]
      a == ps[1]  b == ps[2]  c == ps[3]  d == ps[4]  e == ps[5]
      u3 == us[3]
  IN  TAdd(
        TSub(z1, TMul(a, TSub(TPow3(z1), TMul(SMul(Three, z1), TPow2(z2))))),
        TMul(e, TAdd(
          TSub(TSub(TMul(b, z3),
                    TMul(c, TSub(TMul(TSub(TPow2(z1), TPow2(z2)), z3),
                                 TMul(TMul(SMul(Two, z1), z2), z4)))),
               TMul(d, TSub(TPow3(z3), TMul(SMul(Three, z3), TPow2(z4))))),
          u3)))

crvdo_dz4(zs, ps, us) ==
  LET z1 == zs[1]  z2 == zs[2]  z3 == zs[3]  z4 == zs[4]
      a == ps[1]  b == ps[2]  c == ps[3]  d == ps[4]  e == ps[5]
  IN  TAdd(
        TSub(z2, TMul(a, TAdd(TNeg(TPow3(z2)), TMul(SMul(Three, TPow2(z1)), z2)))),
        TMul(e,
          TSub(TSub(TMul(b, z4),
                    TMul(c, TAdd(TMul(TSub(TPow2(z1), TPow2(z2)), z4),
                                 TMul(TMul(SMul(Two, z1), z2), z3)))),
               TMul(d, TAdd(TNeg(TPow3(z4)), TMul(SMul(Three, TPow3(z2)), z4))))))

\* MultiCRVDO.crvdo_autonomous_batch
crvdo_autonomous_batch(y, params, control) ==
  LET zs == Unbind(y, 4)
      ps == Unbind(params, 5)
      us == Unbind(control, 4)
  IN  IF zs = Raised \/ ps = Raised \/ us = Raised THEN Raised
      ELSE Stack(<<crvdo_dz1(zs, ps, us), crvdo_dz2(zs, ps, us),
                   crvdo_dz3(zs, ps, us), crvdo_dz4(zs, ps, us)>>)

\* k2 and k3 weighted like k1 and k4
forward_unweighted(dt, y, k1, k2, k3, k4) ==
  MAdd(y, MScale(FDivSix(dt), MAdd(MAdd(MAdd(k1, k2), k3), k4)))
\* y + (dt / 6.0) + (k1 + ...) in place of y + (dt / 6.0) * (k1 + ...)
forward_added(dt, y, k1, k2, k3, k4) ==
  MAdd(MAdd(y, [i \in 1..Len(y) |-> [j \in 1..4 |-> FDivSix(dt)]]),
       MAdd(MAdd(MAdd(k1, MScale(Two, k2)), MScale(Two, k3)), k4))
\* the return statement: y + (dt / 6.0) * (k1 + 2 * k2 + 2 * k3 + k4)
forward_return(dt, y, k1, k2, k3, k4) ==
  MAdd(y, MScale(FDivSix(dt),
                 MAdd(MAdd(MAdd(k1, MScale(Two, k2)), MScale(Two, k3)), k4)))

\* k4 = crvdo_autonomous_batch(y + dt * k3, params, control), then the return
forward_k4(dt, y, params, control, k1, k2, k3) ==
  forward_return(dt, y, k1, k2, k3,
    crvdo_autonomous_batch(MAdd(y, MScale(dt, k3)), params, control))

\* k3 = crvdo_autonomous_batch(y + 0.5 * dt * k2, params, control), then on
forward_k3(dt, y, params, control, k1, k2) ==
  forward_k4(dt, y, params, control, k1, k2,
    crvdo_autonomous_batch(MAdd(y, MScale(FMul(Half, dt), k2)), params, control))

\* k2 = crvdo_autonomous_batch(y + 0.5 * dt * k1, params, control), then on
forward_k2(dt, y, params, control, k1) ==
  forward_k3(dt, y, params, control, k1,
    crvdo_autonomous_batch(MAdd(y, MScale(FMul(Half, dt), k1)), params, control))

\* MultiCRVDO.forward: one RK4 step with the buffer dt, statement by
\* statement: k1 = crvdo_autonomous_batch(y, params, control), then on
forward(dt, y, params, control) ==
  forward_k2(dt, y, params, control, crvdo_autonomous_batch(y, params, control))

\* a constructor that refuses dt <= 0
MultiCRVDO_init_checked(dt) == [raised |-> dt <= 0, dt |-> dt]
\* MultiCRVDO.__init__: the buffer holds the argument as given; nothing is
\* checked and nothing is raised
MultiCRVDO_init(dt) == [raised |-> FALSE, dt |-> dt]

\* dt = self.dt; dt /= 6.0: the division done in place on the buffer
forward_call_inplace(dt, y, params, control) ==
  [ret |-> forward(dt, y, params, control),
   dt |-> FDivSix(dt), y |-> y, params |-> params, control |-> control]
\* What a call of forward leaves behind: the returned tensor, and the buffer
\* and the argument tensors as they are after the call (forward has no
\* in-place operation and no assignment to self)
forward_call(dt, y, params, control) ==
  [ret |-> forward(dt, y, params, control),
   dt |-> dt, y |-> y, params |-> params, control |-> control]

\* ------------------------------------------------------------ inputs
ZeroRow == <<0, 0, 0, 0>>
\* params and control of simulate_and_plot's first oscillator, and its dt
DemoParams == <<Frac(5, 2), Lit(2), Frac(1, 4), Lit(1), Frac(1, 2)>>
DemoControl == <<Frac(1, 1), 0, Frac(1, 1), 0>>
DemoDt == Frac(1, 7)
\* a = c = d = 0: only the linear terms are left
LinearParams == <<0, Frac(1, 1), 0, 0, Lit(1)>>
OtherParams == <<Lit(1), 0 - Lit(1), Frac(1, 1), Frac(1, 2), Frac(1, 1)>>
OtherControl == <<Frac(1, 2), Lit(1), 0, 0 - Frac(1, 1)>>

\* the oscillators a caller may put in a batch: a row of state, of
\* parameters and of control each
Oscillators ==
  { [y |-> ZeroRow, params |-> DemoParams, control |-> DemoControl],
    [y |-> ZeroRow, params |-> DemoParams, control |-> ZeroRow],
    [y |-> ZeroRow, params |-> OtherParams, control |-> ZeroRow],
    [y |-> <<Frac(1, 1), 0, Frac(1, 2), 0>>,
     params |-> DemoParams, control |-> OtherControl],
    [y |-> <<Frac(1, 2), Frac(1, 1), 0 - Frac(1, 1), Lit(1)>>,
     params |-> OtherParams, control |-> DemoControl],
    [y |-> <<Frac(1, 1), Frac(1, 2), 0 - Frac(1, 2), Frac(1, 1)>>,
     params |-> LinearParams, control |-> ZeroRow],
    [y |-> <<Lit(6), 0, 0, 0>>, params |-> LinearParams, control |-> ZeroRow] }

DtArgs == { DemoDt, Frac(1, 1), 0, 0 - Frac(1, 1) }

\* the values of u2 and u4 a second run replaces those of control with
OtherU24 == { <<0, 0>>, <<Lit(2), 0 - Lit(1)>> }

\* ------------------------------------------------------------ state
VARIABLES
  dtArg,        \* the argument given to MultiCRVDO(dt)
  model_dt,     \* the buffer model.dt
  raised,       \* "none", or the call that raised: "init" or "forward"
  y0,           \* simulate_and_plot's y0, params, control
  sim_params,
  sim_control,
  sim_y,        \* simulate_and_plot's y: the current state tensor
  inputs,       \* the tensors passed as y, each as it is after its call
  results,      \* the returned states the caller collects
  steps,
  single,       \* a second run: every oscillator stepped alone, as a batch of one
  controlAlt,   \* a third run: the same batch under a control that differs
  yAlt          \*   in u2 and u4 only

vars == <<dtArg, model_dt, raised, y0, sim_params, sim_control, sim_y, inputs,
          results, steps, single, controlAlt, yAlt>>

\* the tensor passed as y to the last call
yIn == IF inputs = <<>> THEN y0 ELSE inputs[Len(inputs)]

Construct ==
  /\ dtArg \in DtArgs
  /\ model_dt = MultiCRVDO_init(dtArg).dt
  /\ raised = IF MultiCRVDO_init(dtArg).raised THEN "init" ELSE "none"

Start ==
  /\ sim_y = y0
  /\ inputs = <<>>
  /\ results = <<>>
  /\ steps = 0

\* batches of 1..MaxBatch oscillators, one row of each tensor per oscillator
InitBatch ==
  /\ Construct
  /\ \E n \in 1..MaxBatch : \E osc \in [1..n -> Oscillators] :
       /\ y0 = [i \in 1..n |-> osc[i].y]
       /\ sim_params = [i \in 1..n |-> osc[i].params]
       /\ sim_control = [i \in 1..n |-> osc[i].control]
  /\ Start

Init ==
  /\ InitBatch
  /\ single = <<>>
  /\ controlAlt = <<>>
  /\ yAlt = <<>>

\* one pass of the loop of simulate_and_plot:
\*   y = model.forward(y=y, params=params, control=control)
\*   results.append(y.clone())
\* An exception ends the loop.
StepCall ==
  /\ raised = "none"
  /\ steps < MaxSteps
  /\ \E r \in {forward_call(model_dt, sim_y, sim_params, sim_control)} :
       /\ model_dt' = r.dt
       /\ sim_params' = r.params
       /\ sim_control' = r.control
       /\ inputs' = Append(inputs, r.y)
       /\ IF r.ret = Raised
          THEN raised' = "forward" /\ UNCHANGED <<sim_y, results>>
          ELSE /\ raised' = "none"
               /\ sim_y' = r.ret
               /\ results' = Append(results, r.ret)
  /\ steps' = steps + 1
  /\ UNCHANGED <<dtArg, y0>>

Step == StepCall /\ UNCHANGED <<single, controlAlt, yAlt>>

Next == Step

Spec == Init /\ [][Next]_vars

\* ---------------------------------------------- every oscillator alone
InitRows ==
  /\ InitBatch
  /\ single = [i \in 1..Len(y0) |-> <<y0[i]>>]
  /\ controlAlt = <<>>
  /\ yAlt = <<>>

\* the loop's pass on the batch and, beside it, on each oscillator as a
\* batch of one made of its own rows
StepRows ==
  /\ StepCall
  /\ single' = [i \in 1..Len(single) |->
                  forward(model_dt, single[i], <<sim_params[i]>>, <<sim_control[i]>>)]
  /\ UNCHANGED <<controlAlt, yAlt>>

NextRows == StepRows

SpecRows == InitRows /\ [][NextRows]_vars

\* ---------------------------------------------- another u2 and u4
\* control with the columns u2 and u4 of every row replaced
WithU24(control, u24) ==
  [i \in 1..Len(control) |-> <<control[i][1], u24[1], control[i][3], u24[2]>>]

InitAlt ==
  /\ InitBatch
  /\ single = <<>>
  /\ \E u24 \in OtherU24 : controlAlt = WithU24(sim_control, u24)
  /\ yAlt = y0

StepAlt ==
  /\ StepCall
  /\ yAlt' = forward(model_dt, yAlt, sim_params, controlAlt)
  /\ UNCHANGED <<single, controlAlt>>

NextAlt == StepAlt

SpecAlt == InitAlt /\ [][NextAlt]_vars

\* ---------------------------------------------- tensors of any shape
\* an [n, c] tensor
Filled(n, c) == [i \in 1..n |-> [j \in 1..c |-> Frac(1, (i + j) % 3)]]

InitShape ==
  /\ Construct
  /\ \E ny \in 1..MaxBatch, np \in 1..MaxBatch, nc \in 1..MaxBatch :
       \E cy \in {3, 4, 5}, cp \in {4, 5, 6}, cc \in {3, 4, 5} :
         /\ y0 = Filled(ny, cy)
         /\ sim_params = Filled(np, cp)
         /\ sim_control = Filled(nc, cc)
  /\ Start
  /\ single = <<>>
  /\ controlAlt = <<>>
  /\ yAlt = <<>>

SpecShape == InitShape /\ [][Next]_vars

\* ---------------------------------------------- the loop run again
\* the caller starts over from y0 on the same model (y = y0)
Restart ==
  /\ raised = "none"
  /\ sim_y # y0
  /\ sim_y' = y0
  /\ UNCHANGED <<dtArg, model_dt, raised, y0, sim_params, sim_control, inputs,
                 results, steps, single, controlAlt, yAlt>>

NextReplay == Step \/ Restart

SpecReplay == Init /\ [][NextReplay]_vars

\* ------------------------------------------------------------ claims
Rows == 1..Len(sim_y)
NoRaise == raised = "none"

\* C1: after a step, the returned state is y + (dt/6)*(k1 + 2*k2 + 2*k3 + k4)
\* of the state y passed in, with k1 = f(y), k2 = f(y + 0.5*dt*k1),
\* k3 = f(y + 0.5*dt*k2), k4 = f(y + dt*k3), f the derivative evaluator with
\* the same params and the same control in all four stages.
C1_Plus(yy, h, k) ==
  [i \in 1..Len(yy) |-> [j \in 1..4 |-> FAdd(yy[i][j], FMul(h, k[i][j]))]]
C1_RK4 ==
  (steps > 0 /\ NoRaise) =>
    LET f(yy) == crvdo_autonomous_batch(yy, sim_params, sim_control)
        k1 == f(yIn)
        k2 == f(C1_Plus(yIn, FMul(Half, model_dt), k1))
        k3 == f(C1_Plus(yIn, FMul(Half, model_dt), k2))
        k4 == f(C1_Plus(yIn, model_dt, k3))
    IN  sim_y =
          [i \in Rows |-> [j \in 1..4 |->
             FAdd(yIn[i][j],
                  FMul(FDivSix(model_dt),
                       FAdd(FAdd(FAdd(k1[i][j], FMul(Two, k2[i][j])),
                                 FMul(Two, k3[i][j])),
                            k4[i][j])))]]
C1_Witness ==
  /\ steps > 1 /\ NoRaise /\ Len(sim_y) > 1
  /\ sim_y # yIn /\ sim_y[1] # sim_y[2]
  /\ \A i \in Rows : \A j \in 1..4 : IsFinite(sim_y[i][j]) /\ sim_y[i][j] # 0

\* C2: for every oscillator row the evaluator returns exactly the four
\* components of the formula of the claim ...
C2_Row(z, p, u) ==
  LET z1 == z[1]  z2 == z[2]  z3 == z[3]  z4 == z[4]
      a == p[1]  b == p[2]  c == p[3]  d == p[4]  e == p[5]
      u1 == u[1]  u3 == u[3]
      sq == FSub(FPow2(z1), FPow2(z2))
  IN  << FAdd(z3, u1),
         z4,
         FAdd(FSub(z1, FMul(a, FSub(FPow3(z1), FMul(FMul(Three, z1), FPow2(z2))))),
              FMul(e, FAdd(FSub(FSub(FMul(b, z3),
                                     FMul(c, FSub(FMul(sq, z3),
                                                  FMul(FMul(FMul(Two, z1), z2), z4)))),
                                FMul(d, FSub(FPow3(z3),
                                             FMul(FMul(Three, z3), FPow2(z4))))),
                           u3))),
         FAdd(FSub(z2, FMul(a, FAdd(FNeg(FPow3(z2)), FMul(FMul(Three, FPow2(z1)), z2)))),
              FMul(e, FSub(FSub(FMul(b, z4),
                                FMul(c, FAdd(FMul(sq, z4),
                                             FMul(FMul(FMul(Two, z1), z2), z3)))),
                           FMul(d, FAdd(FNeg(FPow3(z4)),
                                        FMul(FMul(Three, FPow3(z2)), z4)))))) >>
C2_Exact ==
  NoRaise =>
    \A i \in Rows :
      crvdo_autonomous_batch(sim_y, sim_params, sim_control)[i]
        = C2_Row(sim_y[i], sim_params[i], sim_control[i])
\* ... and with a = c = d = 0 and control = 0 the row is
\* (z3, z4, z1 + e*b*z3, z2 + e*b*z4)
C2_IsLinear(i) ==
  /\ sim_params[i][1] = 0 /\ sim_params[i][3] = 0 /\ sim_params[i][4] = 0
  /\ sim_control[i] = ZeroRow
C2_Linear(i) ==
  LET z == sim_y[i]
      b == sim_params[i][2]
      e == sim_params[i][5]
  IN  crvdo_autonomous_batch(sim_y, sim_params, sim_control)[i]
        = << z[3], z[4], FAdd(z[1], FMul(e, FMul(b, z[3]))),
             FAdd(z[2], FMul(e, FMul(b, z[4]))) >>
\* the terms that a, c and d multiply are all finite
C2_TermsFinite(i) ==
  LET z1 == sim_y[i][1]  z2 == sim_y[i][2]  z3 == sim_y[i][3]  z4 == sim_y[i][4]
      sq == FSub(FPow2(z1), FPow2(z2))
  IN  /\ IsFinite(FSub(FPow3(z1), FMul(FMul(Three, z1), FPow2(z2))))
      /\ IsFinite(FSub(FMul(sq, z3), FMul(FMul(FMul(Two, z1), z2), z4)))
      /\ IsFinite(FSub(FPow3(z3), FMul(FMul(Three, z3), FPow2(z4))))
      /\ IsFinite(FAdd(FNeg(FPow3(z2)), FMul(FMul(Three, FPow2(z1)), z2)))
      /\ IsFinite(FAdd(FMul(sq, z4), FMul(FMul(FMul(Two, z1), z2), z3)))
      /\ IsFinite(FAdd(FNeg(FPow3(z4)), FMul(FMul(Three, FPow3(z2)), z4)))
\* C2 as stated: the formula, and the linear block for every state
C2_Original ==
  C2_Exact /\ (NoRaise => \A i \in Rows : C2_IsLinear(i) => C2_Linear(i))
\* C2 amended: the formula, and the linear block wherever the suppressed
\* terms are finite (0 * inf is NaN, not 0)
C2_Amended ==
  C2_Exact /\
  (NoRaise => \A i \in Rows : (C2_IsLinear(i) /\ C2_TermsFinite(i)) => C2_Linear(i))
C2_Witness ==
  /\ steps > 0 /\ NoRaise
  /\ \E i \in Rows :
       /\ C2_IsLinear(i) /\ C2_TermsFinite(i)
       /\ \A j \in 1..4 : sim_y[i][j] # 0 /\ IsFinite(sim_y[i][j])
       /\ crvdo_autonomous_batch(sim_y, sim_params, sim_control)[i][3] # sim_y[i][1]
  /\ \E i \in Rows :
       /\ sim_params[i][1] # 0 /\ sim_params[i][3] # 0 /\ sim_params[i][4] # 0
       /\ \A j \in 1..4 : sim_y[i][j] # 0 /\ IsFinite(sim_y[i][j])

\* C3 as stated: no integrator with dt <= 0 exists, no step runs with dt <= 0
C3_Original == raised # "init" => model_dt > 0
\* C3 amended: the constructor raises for no dt and keeps dt as given, also
\* when dt <= 0
C3_Amended == raised # "init" /\ model_dt = dtArg
C3_Witness == dtArg <= 0 /\ NoRaise /\ steps > 0 /\ sim_y # y0

\* C4 as stated: a step raises whenever the leading dimensions of the three
\* batches disagree or a row has not 4 (state, control) or 5 (params)
\* components
C4_ColumnsOk ==
  Len(y0[1]) = 4 /\ Len(sim_params[1]) = 5 /\ Len(sim_control[1]) = 4
C4_Original ==
  (steps > 0 /\ (~C4_ColumnsOk \/ Len(sim_params) # Len(y0)
                                 \/ Len(sim_control) # Len(y0)))
    => raised = "forward"
\* C4 amended: a step raises, and returns no state, exactly when a row has
\* not 4 (state, control) or 5 (params) components or the leading dimension
\* of params or of control is neither that of the state nor 1; a params or
\* control of one row is used for every oscillator
C4_ShapesOk ==
  /\ C4_ColumnsOk
  /\ Len(sim_params) \in {1, Len(y0)}
  /\ Len(sim_control) \in {1, Len(y0)}
C4_Amended ==
  steps > 0 =>
    /\ raised = "forward" <=> ~C4_ShapesOk
    /\ raised = "forward" => (results = <<>> /\ sim_y = y0)
    /\ raised = "none" =>
         /\ Len(results) = steps
         /\ Len(sim_y) = Len(y0)
         /\ \A i \in Rows :
              sim_y[i] =
                forward(model_dt, <<yIn[i]>>,
                        <<sim_params[IF Len(sim_params) = 1 THEN 1 ELSE i]>>,
                        <<sim_control[IF Len(sim_control) = 1 THEN 1 ELSE i]>>)[1]
C4_Witness ==
  /\ steps > 1 /\ NoRaise
  /\ Len(sim_y) > 1 /\ Len(sim_params) = 1 /\ Len(sim_control) = 1
  /\ sim_y # y0

\* C5: row i of the stepped batch equals the row obtained by stepping
\* oscillator i alone as a batch of one, after any number of steps
C5_Independent ==
  NoRaise => \A i \in Rows : single[i] = <<sim_y[i]>>
C5_Witness ==
  /\ steps > 1 /\ NoRaise /\ Len(sim_y) > 1
  /\ sim_params[1] # sim_params[2]
  /\ sim_y[1] # sim_y[2] /\ sim_y[1] # y0[1] /\ sim_y[2] # y0[2]
  /\ \A i \in Rows : \A j \in 1..4 : IsFinite(sim_y[i][j])

\* C6: an oscillator at state 0 under control 0 has derivative 0 and stays
\* at 0 through every step, whatever its params and dt
C6_ZeroFixed ==
  NoRaise =>
    \A i \in Rows :
      (y0[i] = ZeroRow /\ sim_control[i] = ZeroRow) =>
         /\ sim_y[i] = ZeroRow
         /\ crvdo_autonomous_batch(sim_y, sim_params, sim_control)[i] = ZeroRow
C6_Witness ==
  /\ steps > 1 /\ NoRaise /\ model_dt # 0
  /\ \A i \in Rows : y0[i] = ZeroRow /\ sim_control[i] = ZeroRow
  /\ Len(sim_y) > 1 /\ sim_params[1] # sim_params[2]

\* C7: dt = 1/128, one oscillator at state 0 with the demo params and
\* control: after one step ...
C7_Scenario ==
  /\ dtArg = DemoDt /\ Len(y0) = 1 /\ y0[1] = ZeroRow
  /\ sim_params[1] = DemoParams /\ sim_control[1] = DemoControl
  /\ steps = 1 /\ NoRaise
\* ... as stated, z1 and z2 are 0
C7_Original == C7_Scenario => (sim_y[1][1] = 0 /\ sim_y[1][2] = 0)
\* ... amended, z2 and z4 are 0 and z1 and z3 are positive
C7_Amended ==
  C7_Scenario =>
    /\ sim_y[1][2] = 0 /\ sim_y[1][4] = 0
    /\ sim_y[1][1] > 0 /\ IsFinite(sim_y[1][1])
    /\ sim_y[1][3] > 0 /\ IsFinite(sim_y[1][3])
C7_Witness == C7_Scenario

\* C8: a step changes neither dt nor the params, control or state tensor
\* passed in, dt keeps its construction value, and calls with identical
\* inputs return identical outputs whatever was called in between
C8_Repeatable ==
  \A j \in 1..Len(results) : \A k \in 1..Len(results) :
    inputs[j] = inputs[k] => results[j] = results[k]
C8_Stateless ==
  [][steps' = steps + 1 =>
       /\ model_dt' = model_dt /\ model_dt' = dtArg
       /\ sim_params' = sim_params
       /\ sim_control' = sim_control
       /\ inputs' = Append(inputs, sim_y)
       /\ C8_Repeatable']_vars
C8_Witness ==
  /\ NoRaise /\ model_dt # 0
  /\ \E j \in 1..Len(results) : \E k \in 1..Len(results) :
       /\ k > j + 1
       /\ inputs[j] = inputs[k] /\ results[j] = results[k]
       /\ inputs[j + 1] # inputs[j] /\ results[j + 1] # results[j]

\* C9: under a control that differs in u2 and u4 only, the evaluator and
\* every step return the same
C9_Ignored ==
  NoRaise =>
    /\ yAlt = sim_y
    /\ crvdo_autonomous_batch(sim_y, sim_params, controlAlt)
         = crvdo_autonomous_batch(sim_y, sim_params, sim_control)
C9_Witness ==
  /\ steps > 1 /\ NoRaise /\ sim_y # y0
  /\ \A i \in Rows :
       /\ controlAlt[i][2] # sim_control[i][2]
       /\ controlAlt[i][4] # sim_control[i][4]
       /\ \A j \in 1..4 : IsFinite(sim_y[i][j]) /\ sim_y[i][j] # 0

\* C10 as stated: an oscillator that starts with z2 = 0 and z4 = 0 has
\* z2 = 0 and z4 = 0 after any number of steps
C10_InPlane(i) == y0[i][2] = 0 /\ y0[i][4] = 0
====
